---- MODULE Spec2Model ----
(***************************************************************************)
(* react-flip-move, src/prop-converter.js: the FlipMovePropConverter       *)
(* higher-order component.  render() hands convertProps(this.props) to the *)
(* composed component.  The model keeps a small JavaScript heap (objects   *)
(* are maps from property names to values, reached through references) so  *)
(* that copying and aliasing are distinguishable, and models JavaScript    *)
(* values as tagged records.                                               *)
(***************************************************************************)
EXTENDS Integers, Sequences, FiniteSets, TLC

\* ------------------------------------------------------------------ bounds
\* longest timing text the caller supplies
MaxStrLen == 2
\* most fields a mixed configuration supplies at once
MaxFields == 2
\* longest children array the caller supplies
MaxChildren == 2
\* convertProps invocations in one chain (the first pass and re-normalisations)
MaxPasses == 2

\* ------------------------------------------------------- JavaScript values
Undefined == [t |-> "undefined"]
Null == [t |-> "null"]
Bool(b) == [t |-> "boolean", b |-> b]
\* a finite number, kept in tenths so that 3.5 is a value (tenths = 35)
Tenths(n) == [t |-> "number", nan |-> FALSE, tenths |-> n]
Num(n) == Tenths(10 * n)
NaN == [t |-> "number", nan |-> TRUE, tenths |-> 0]
\* a string is its sequence of characters
Str(chars) == [t |-> "string", chars |-> chars]
\* a reference to a heap object
Obj(ref) == [t |-> "object", ref |-> ref]
\* a function the caller wrote
Fn(id) == [t |-> "function", id |-> id, captured |-> Undefined]
\* a React element: its key (null when the caller gave none) and whether its
\* type is a stateless functional component
Element(key, sfc) == [t |-> "element", key |-> key, sfc |-> sfc]
Array(items) == [t |-> "array", items |-> items]

\* typeof v
TypeOf(v) ==
  IF v.t \in {"null", "object", "element", "array"} THEN "object" ELSE v.t

\* obj[k]: a missing property reads as undefined
Get(obj, k) == IF k \in DOMAIN obj THEN obj[k] ELSE Undefined

\* obj[k] = v on a copy of the map
Put(obj, k, v) == [x \in DOMAIN obj \cup {k} |-> IF x = k THEN v ELSE obj[x]]

\* { ...a, ...b }: b's properties win
Spread(a, b) ==
  [x \in DOMAIN a \cup DOMAIN b |-> IF x \in DOMAIN b THEN b[x] ELSE a[x]]

\* a new object at ref
Alloc(h, ref, obj) ==
  [r \in DOMAIN h \cup {ref} |-> IF r = ref THEN obj ELSE h[r]]

\* h[ref][k] = v, in place
Store(h, ref, k, v) == [h EXCEPT ![ref] = Put(@, k, v)]

\* ----------------------------------------------------- parseInt and isNaN
IsWhiteSpace(c) == c = " "

Digits == <<"0", "1", "2", "3", "4", "5", "6", "7", "8", "9">>

IsDigit(c) == \E i \in 1..Len(Digits) : Digits[i] = c

DigitValue(c) == (CHOOSE i \in 1..Len(Digits) : Digits[i] = c) - 1

RECURSIVE StripLeadingWhiteSpace(_)
StripLeadingWhiteSpace(s) ==
  IF s # <<>> /\ IsWhiteSpace(Head(s)) THEN StripLeadingWhiteSpace(Tail(s)) ELSE s

\* the value of the longest run of decimal digits s starts with, after acc
RECURSIVE ParseDigits(_, _)
ParseDigits(s, acc) ==
  IF s # <<>> /\ IsDigit(Head(s))
  THEN ParseDigits(Tail(s), 10 * acc + DigitValue(Head(s)))
  ELSE acc

\* a parseInt that loses the sign
MutantParseIntUnsigned(chars) ==
  LET s == StripLeadingWhiteSpace(chars)
      body == IF s # <<>> /\ Head(s) \in {"-", "+"} THEN Tail(s) ELSE s
  IN IF body = <<>> \/ ~IsDigit(Head(body)) THEN NaN ELSE Num(ParseDigits(body, 0))

\* parseInt(chars, 10): leading white space, an optional sign, then the longest
\* run of digits; NaN when there is no digit
parseInt(chars) ==
  LET s == StripLeadingWhiteSpace(chars)
      negative == s # <<>> /\ Head(s) = "-"
      body == IF s # <<>> /\ Head(s) \in {"-", "+"} THEN Tail(s) ELSE s
  IN IF body = <<>> \/ ~IsDigit(Head(body))
     THEN NaN
     ELSE Num((IF negative THEN -1 ELSE 1) * ParseDigits(body, 0))

\* Number(text) is NaN unless the trimmed text is empty or a decimal literal
RECURSIVE StripTrailingWhiteSpace(_)
StripTrailingWhiteSpace(s) ==
  IF s # <<>> /\ IsWhiteSpace(s[Len(s)])
  THEN StripTrailingWhiteSpace(SubSeq(s, 1, Len(s) - 1))
  ELSE s

TextIsNumeric(chars) ==
  LET s == StripTrailingWhiteSpace(StripLeadingWhiteSpace(chars))
      body == IF s # <<>> /\ Head(s) \in {"-", "+"} THEN Tail(s) ELSE s
  IN s = <<>> \/ (body # <<>> /\ \A i \in 1..Len(body) : IsDigit(body[i]))

\* the global isNaN(v): NaN after conversion to a number.  null and booleans
\* convert to 0 or 1; undefined, objects and functions convert to NaN
isNaN(v) ==
  CASE v.t = "number" -> v.nan
    [] v.t = "string" -> ~TextIsNumeric(v.chars)
    [] v.t \in {"null", "boolean"} -> FALSE
    [] OTHER -> TRUE

\* ------------------------------------------------ React.Children.toArray
\* the characters of index.toString(36), for the indices the model reaches
ToBase36(index) == Digits[index + 1]

\* React's escape of a key inside a generated name: "=" and ":" are escaped
RECURSIVE escape(_)
escape(chars) ==
  IF chars = <<>> THEN <<>>
  ELSE (CASE Head(chars) = "=" -> <<"=", "0">>
          [] Head(chars) = ":" -> <<"=", "2">>
          [] OTHER -> <<Head(chars)>>) \o escape(Tail(chars))

\* React's getComponentKey: "$" and the escaped key of a keyed element, the
\* position of anything else
getComponentKey(component, index) ==
  IF component.t = "element" /\ component.key.t = "string"
  THEN <<"$">> \o escape(component.key.chars)
  ELSE <<ToBase36(index)>>

\* React's traverseAllChildren under toArray's identity callback: null,
\* undefined and booleans are dropped, nested arrays are flattened in order,
\* and every element is cloned with the name of its place as its key
RECURSIVE traverseAllChildren(_, _)
RECURSIVE traverseItems(_, _, _)
traverseItems(items, i, prefix) ==
  IF i > Len(items) THEN <<>>
  ELSE traverseAllChildren(items[i], prefix \o getComponentKey(items[i], i - 1))
         \o traverseItems(items, i + 1, prefix)

traverseAllChildren(children, nameSoFar) ==
  CASE children.t = "element" ->
         <<[children EXCEPT !.key =
              Str(IF nameSoFar = <<>>
                  THEN <<".">> \o getComponentKey(children, 0)
                  ELSE nameSoFar)]>>
    [] children.t = "array" ->
         traverseItems(children.items, 1,
                       IF nameSoFar = <<>> THEN <<".">> ELSE nameSoFar \o <<":">>)
    [] OTHER -> <<>>

\* React.Children.toArray(children)
toArray(children) == Array(traverseAllChildren(children, <<>>))

\* ------------------------------------------------------------------ schema
\* Object.keys(FlipMovePropConverter.propTypes)
propTypes ==
  {"children", "easing", "duration", "delay", "staggerDurationBy",
   "staggerDelayBy", "onStart", "onFinish", "onStartAll", "onFinishAll",
   "typeName", "enterClassName", "leaveClassName", "disableAllAnimations",
   "getPosition", "maintainContainerHeight"}

DefaultDuration == 350
DefaultDelay == 0
DefaultStaggerDurationBy == 0
DefaultStaggerDelayBy == 0

\* the preset the enter-leave-presets module exports as its default
defaultPreset == Str(<<"defaultPreset">>)

\* FlipMovePropConverter.defaultProps
defaultProps ==
  [easing |-> Str(<<"ease-in-out">>),
   duration |-> Num(DefaultDuration),
   delay |-> Num(DefaultDelay),
   staggerDurationBy |-> Num(DefaultStaggerDurationBy),
   staggerDelayBy |-> Num(DefaultStaggerDelayBy),
   typeName |-> Str(<<"div">>),
   enterClassName |-> defaultPreset,
   leaveClassName |-> defaultPreset,
   disableAllAnimations |-> Bool(FALSE),
   getPosition |-> Fn("getBoundingClientRect"),
   maintainContainerHeight |-> Bool(FALSE)]

timingPropNames == <<"duration", "delay", "staggerDurationBy", "staggerDelayBy">>

\* ------------------------------------------------------ helpers, messages
\* helpers.isElementAnSFC(element)
isElementAnSFC(element) == element.sfc

\* helpers.omit(obj, attrs): a new object without the keys in attrs
omit(obj, attrs) == [x \in DOMAIN obj \ attrs |-> obj[x]]

\* what reaches console.warn and console.error: the message builder called and
\* the context it was given
Diagnostic(level, msg, prop, value, defaultValue) ==
  [level |-> level, msg |-> msg, prop |-> prop, value |-> value,
   defaultValue |-> defaultValue]

\* ------------------------------------------------------------ convertProps
\* child.key, read on whatever the children array holds
KeyOf(child) == IF child.t = "element" THEN child.key ELSE Undefined

\* lines 44-46
noStateless(children) ==
  \A i \in 1..Len(children.items) :
    ~isElementAnSFC(children.items[i])
      \/ TypeOf(KeyOf(children.items[i])) = "undefined"

\* a working copy that is the props object itself
MutantAliasWorkingProps(h, props) == [heap |-> h, ref |-> props]

\* let workingProps = { ...props }
NewWorkingProps(h, props) ==
  [heap |-> Alloc(h, "workingProps", h[props]), ref |-> "workingProps"]

\* lines 59-61
timingValue(rawValue) ==
  IF TypeOf(rawValue) = "string" THEN parseInt(rawValue.chars) ELSE rawValue

\* one fallback shared by the four fields
MutantSharedDefault(h, prop) == Get(h["defaultProps"], "delay")

\* const defaultValue = defaultProps[prop]
defaultValue(h, prop) == Get(h["defaultProps"], prop)

\* the body of timingPropNames.forEach, on st = [heap, console]
convertTimingProp(st, wp, prop) ==
  LET rawValue == Get(st.heap[wp], prop)
      value == timingValue(rawValue)
  IN IF isNaN(value)
     THEN [heap |-> Store(st.heap, wp, prop, defaultValue(st.heap, prop)),
           console |-> Append(st.console,
                         Diagnostic("error", "invalidTypeForTimingProp", prop,
                                    value, defaultValue(st.heap, prop)))]
     ELSE [heap |-> Store(st.heap, wp, prop, value), console |-> st.console]

RECURSIVE convertTimingProps(_, _, _)
convertTimingProps(st, wp, names) ==
  IF names = <<>> THEN st
  ELSE convertTimingProps(convertTimingProp(st, wp, Head(names)), wp, Tail(names))

\* a wrapper around every value, callable or not
MutantAlwaysWrap(animation) ==
  [t |-> "function", id |-> "arrow", captured |-> animation]

\* no wrapper at all
MutantNeverWrap(animation) == animation

\* convertAnimationProp: a function as it is, anything else in () => animation
convertAnimationProp(animation) ==
  IF TypeOf(animation) = "function"
  THEN animation
  ELSE [t |-> "function", id |-> "arrow", captured |-> animation]

\* a shim that tests the legacy value for truth
MutantShimOnTruthy(st, wp, props) ==
  IF Get(st.heap[props], "disableAnimations") = Bool(TRUE)
  THEN [heap |-> Store(Store(st.heap, wp, "disableAnimations", Undefined),
                       wp, "disableAllAnimations",
                       Get(st.heap[props], "disableAnimations")),
        console |-> Append(st.console,
                      Diagnostic("warn", "deprecatedDisableAnimations", "",
                                 Undefined, Undefined))]
  ELSE st

\* lines 85-89
shimDisableAnimations(st, wp, props) ==
  IF TypeOf(Get(st.heap[props], "disableAnimations")) # "undefined"
  THEN [heap |-> Store(Store(st.heap, wp, "disableAnimations", Undefined),
                       wp, "disableAllAnimations",
                       Get(st.heap[props], "disableAnimations")),
        console |-> Append(st.console,
                      Diagnostic("warn", "deprecatedDisableAnimations", "",
                                 Undefined, Undefined))]
  ELSE st

\* the own properties { ...v } copies: those of the object v refers to
OwnProperties(h, v) ==
  IF v.t = "object" /\ v.ref \in DOMAIN h THEN h[v.ref] ELSE <<>>

\* lines 93-105: delegatedProps, its style, and the object returned
delegate(h, wp, thisProps) ==
  LET h1 == Alloc(h, "delegatedProps", omit(h[thisProps], propTypes))
      h2 == Alloc(h1, "delegatedStyle",
                  Spread([position |-> Str(<<"relative">>)],
                         OwnProperties(h1, Get(h1["delegatedProps"], "style"))))
      h3 == Store(h2, "delegatedProps", "style", Obj("delegatedStyle"))
      h4 == Alloc(h3, "result", omit(h3[wp], DOMAIN h3["delegatedProps"]))
  IN Store(h4, "result", "delegated", Obj("delegatedProps"))

\* convertProps(props) of a component whose this.props is thisProps: the heap
\* it leaves, what it wrote to the console, and the object it returns
convertProps(h, props, thisProps) ==
  LET w == NewWorkingProps(h, props)
      wp == w.ref
      h1 == Store(w.heap, wp, "children", toArray(Get(w.heap[props], "children")))
      st1 == [heap |-> h1,
              console |-> IF noStateless(Get(h1[wp], "children"))
                          THEN <<>>
                          ELSE <<Diagnostic("warn",
                                            "statelessFunctionalComponentSupplied",
                                            "", Undefined, Undefined)>>]
      st2 == convertTimingProps(st1, wp, timingPropNames)
      h3 == Store(st2.heap, wp, "enterClassName",
                  convertAnimationProp(Get(st2.heap[wp], "enterClassName")))
      h4 == Store(h3, wp, "leaveClassName",
                  convertAnimationProp(Get(h3[wp], "leaveClassName")))
      st5 == shimDisableAnimations([heap |-> h4, console |-> st2.console], wp, props)
  IN [heap |-> delegate(st5.heap, wp, thisProps),
      console |-> st5.console,
      ret |-> "result"]

\* ------------------------------------------------- what the caller supplies
\* the characters of a timing text: digits, a sign, a letter, white space
Chars == {"0", "7", "-", "x", " "}

Texts == UNION {[1..n -> Chars] : n \in 0..MaxStrLen}

\* 3.5 and the other values that are neither text nor integers
TimingNonTexts ==
  {Undefined, Null, Bool(TRUE), NaN, Num(-2), Num(0), Num(40), Tenths(35)}

TimingValues == {Str(s) : s \in Texts} \cup TimingNonTexts

TimingSample == {Str(<<"x">>), Str(<<"-", "7">>), Tenths(35), NaN}

TimingFields == {timingPropNames[i] : i \in 1..Len(timingPropNames)}

\* the children supplied are elements, null and arrays of them; text children
\* are left out, since what helpers.isElementAnSFC makes of text is not in
\* prop-converter.js
ChildElements ==
  {Element(key, sfc) : key \in {Null, Str(<<"a">>)}, sfc \in BOOLEAN}

ChildItems ==
  ChildElements \cup {Null, Array(<<Element(Str(<<"a">>), FALSE)>>)}

ChildrenValues ==
  {Undefined, Null} \cup ChildElements
    \cup {Array(items) : items \in UNION {[1..n -> ChildItems] : n \in 0..MaxChildren}}

AnimationValues ==
  {Fn("callerAnimation"), Obj("shape"), Str(<<"fade">>), Bool(TRUE),
   Bool(FALSE), Null, Undefined}

\* the values a mixed configuration gives a field
FieldValues(f) ==
  CASE f \in TimingFields -> TimingSample
    [] f = "enterClassName" -> AnimationValues
    [] f = "leaveClassName" -> {Fn("callerAnimation"), Obj("shape"), Bool(FALSE)}
    [] f = "disableAnimations" -> {Bool(TRUE), Bool(FALSE), Null, Undefined}
    [] f = "disableAllAnimations" -> {Bool(TRUE), Bool(FALSE)}
    [] f = "style" -> {Obj("style")}
    [] f = "foo" -> {Num(1), Undefined}
    [] f = "delegated" -> {Num(1)}
    [] f = "easing" -> {Str(<<"linear">>)}
    [] f = "children" ->
         {Element(Null, TRUE),
          Array(<<Element(Str(<<"a">>), TRUE), Element(Null, FALSE)>>)}

GeneralFields ==
  TimingFields \cup
    {"enterClassName", "leaveClassName", "disableAnimations",
     "disableAllAnimations", "style", "foo", "delegated", "easing", "children"}

\* every configuration that gives each field of fields one of its values
RECURSIVE ConfigsOver(_)
ConfigsOver(fields) ==
  IF fields = {} THEN {<<>>}
  ELSE LET f == CHOOSE x \in fields : TRUE
       IN {Put(c, f, v) : c \in ConfigsOver(fields \ {f}), v \in FieldValues(f)}

\* at most MaxFields fields, recognised or not
GeneralConfigs ==
  UNION {ConfigsOver(fs) :
           fs \in {s \in SUBSET GeneralFields : Cardinality(s) <= MaxFields}}

\* one timing field with any timing value, each other timing field either left
\* out or given unparseable text
TimingConfigs ==
  {Spread([g \in others |-> Str(<<"x">>)], Put(<<>>, f, v)) :
     f \in TimingFields, v \in TimingValues, others \in SUBSET TimingFields}

ChildrenConfigs == {Put(<<>>, "children", c) : c \in ChildrenValues}

Configs == TimingConfigs \cup GeneralConfigs \cup ChildrenConfigs

\* the style objects a caller passes
CallerStyles ==
  {<<>>,
   [color |-> Str(<<"red">>)],
   [position |-> Str(<<"absolute">>)],
   [position |-> Str(<<"absolute">>), color |-> Str(<<"red">>)]}

\* what a caller's animation function may return, call by call
AnimationResults == {Obj("shape"), Bool(FALSE)}

\* ------------------------------------------------------------------- state
VARIABLES
  heap,      \* the objects alive: defaultProps, this.props, the caller's style,
             \* and what convertProps allocated
  pc,        \* "idle" (not mounted), "pending" (this.props set, render due),
             \* "rendered"
  received,  \* the canonical configurations render() has handed to the
             \* composed component since the caller's configuration arrived
  console,   \* what the latest convertProps wrote to the console, in order
  called,    \* the latest call of a canonical animation callable and its result
  pass       \* convertProps invocations since the caller's configuration arrived

vars == <<heap, pc, received, console, called, pass>>

NoCall == [field |-> "", value |-> Undefined]

\* React's resolution of defaultProps when the element is created: every
\* supplied property, and the default wherever the value is undefined
ResolveDefaults(config, defaults) ==
  [k \in DOMAIN config \cup DOMAIN defaults |->
     IF k \in DOMAIN defaults /\ Get(config, k) = Undefined
     THEN defaults[k]
     ELSE config[k]]

\* the returned object, its delegated object and that object's style, as the
\* composed component reads them
Canonical(h, ret) ==
  LET top == h[ret]
      delegated == OwnProperties(h, Get(top, "delegated"))
  IN [top |-> top,
      delegated |-> delegated,
      style |-> OwnProperties(h, Get(delegated, "style"))]

\* calling a canonical animation callable: an arrow returns what it captured,
\* the caller's function whatever it likes
CallResults(fn) == IF fn.id = "arrow" THEN {fn.captured} ELSE AnimationResults

Init ==
  /\ heap = [defaultProps |-> defaultProps]
  /\ pc = "idle"
  /\ received = <<>>
  /\ console = <<>>
  /\ called = NoCall
  /\ pass = 0

\* the parent renders the component with a configuration: React builds
\* this.props from it and the defaults
ReceiveProps ==
  /\ pc = "idle"
  /\ \E config \in Configs :
       \E style \in (IF "style" \in DOMAIN config THEN CallerStyles ELSE {<<>>}) :
         LET h0 == [defaultProps |-> heap["defaultProps"],
                    props |-> ResolveDefaults(config, heap["defaultProps"])]
         IN heap' = IF "style" \in DOMAIN config THEN Alloc(h0, "style", style) ELSE h0
  /\ pc' = "pending"
  /\ received' = <<>>
  /\ console' = <<>>
  /\ called' = NoCall
  /\ pass' = 0

\* render(): <ComposedComponent {...this.convertProps(this.props)} />
Render ==
  /\ pc = "pending"
  /\ LET r == convertProps(heap, "props", "props")
     IN /\ heap' = r.heap
        /\ console' = r.console
        /\ received' = Append(received, Canonical(r.heap, r.ret))
  /\ pc' = "rendered"
  /\ called' = NoCall
  /\ pass' = pass + 1

\* the composed component calls props.enterClassName() or props.leaveClassName()
Invoke ==
  /\ pc = "rendered"
  /\ \E field \in {"enterClassName", "leaveClassName"} :
       LET fn == Get(received[Len(received)].top, field)
       IN /\ TypeOf(fn) = "function"
          /\ \E value \in CallResults(fn) :
               called' = [field |-> field, value |-> value]
  /\ UNCHANGED <<heap, pc, received, console, pass>>

\* the non-delegated fields of the canonical configuration come back as the
\* component's configuration
Renormalize ==
  /\ pc = "rendered"
  /\ pass < MaxPasses
  /\ heap' = [defaultProps |-> heap["defaultProps"],
              props |-> ResolveDefaults(
                          omit(received[Len(received)].top, {"delegated"}),
                          heap["defaultProps"])]
  /\ pc' = "pending"
  /\ console' = <<>>
  /\ called' = NoCall
  /\ UNCHANGED <<received, pass>>

\* the component is unmounted; the class and its defaultProps stay
Unmount ==
  /\ pc = "rendered"
  /\ heap' = [defaultProps |-> heap["defaultProps"]]
  /\ pc' = "idle"
  /\ received' = <<>>
  /\ console' = <<>>
  /\ called' = NoCall
  /\ pass' = 0

Next == ReceiveProps \/ Render \/ Invoke \/ Renormalize \/ Unmount

Spec == Init /\ [][Next]_vars

\* ------------------------------------------------------ reading a state
Rendered == pc = "rendered"

\* the raw configuration the latest convertProps was given (this.props)
Raw == heap["props"]

\* the canonical configuration the latest convertProps returned
Canon == received[Len(received)]

\* the caller's style object, empty when none was passed
RawStyle == IF "style" \in DOMAIN heap THEN heap["style"] ELSE <<>>

ErrorsNaming(p) ==
  Cardinality({i \in 1..Len(console) :
                 /\ console[i].level = "error"
                 /\ console[i].msg = "invalidTypeForTimingProp"
                 /\ console[i].prop = p})

WarningsOf(msg) ==
  Cardinality({i \in 1..Len(console) :
                 console[i].level = "warn" /\ console[i].msg = msg})

IsIntegerValue(v) == v.t = "number" /\ ~v.nan /\ v.tenths % 10 = 0

\* the schema default of a timing field, as the schema table states it
SchemaDefault(p) == IF p = "duration" THEN Num(350) ELSE Num(0)

\* text that starts, after white space and an optional sign, with a digit
HasLeadingInteger(s) ==
  \E w \in 0..Len(s), g \in 0..1 :
    /\ w + g < Len(s)
    /\ \A i \in 1..w : s[i] = " "
    /\ g = 1 => s[w + 1] \in {"-", "+"}
    /\ IsDigit(s[w + g + 1])

RECURSIVE Pow10(_)
Pow10(n) == IF n = 0 THEN 1 ELSE 10 * Pow10(n - 1)

RECURSIVE PositionalSum(_, _, _)
\* the decimal value of s[from..to], digit by position
PositionalSum(s, from, to) ==
  IF from > to THEN 0
  ELSE DigitValue(s[from]) * Pow10(to - from) + PositionalSum(s, from + 1, to)

\* the integer a text with a leading integer denotes
LeadingIntegerValue(s) ==
  LET w == CHOOSE n \in 0..Len(s) :
             (\A i \in 1..n : s[i] = " ") /\ (n = Len(s) \/ s[n + 1] # " ")
      g == IF s[w + 1] \in {"-", "+"} THEN 1 ELSE 0
      last == CHOOSE n \in (w + g + 1)..Len(s) :
                (\A i \in (w + g + 1)..n : IsDigit(s[i]))
                  /\ (n = Len(s) \/ ~IsDigit(s[n + 1]))
  IN (IF s[w + 1] = "-" THEN -1 ELSE 1) * PositionalSum(s, w + g + 1, last)

UnparseableTiming(v) ==
  (v.t = "string" /\ ~HasLeadingInteger(v.chars)) \/ v = NaN

ParseableTiming(v) ==
  (v.t = "string" /\ HasLeadingInteger(v.chars)) \/ (v.t = "number" /\ ~v.nan)

ExpectedTiming(v) ==
  IF v.t = "number" THEN v ELSE Num(LeadingIntegerValue(v.chars))

\* ------------------------------------------------------------------ claims
\* C1: after every convertProps, each of duration, delay, staggerDurationBy and
\* staggerDelayBy in the canonical configuration is an integer, whatever the
\* type of the raw value.
C1_TimingFieldsAreIntegers ==
  Rendered => \A p \in TimingFields : IsIntegerValue(Canon.top[p])

\* C2: a timing field whose raw value is unparseable (text without a leading
\* integer, or NaN) gets its own schema default and exactly one error naming
\* it; the other timing fields get the value their own raw value gives them.
C2_UnparseableFallsBackToOwnDefault ==
  Rendered =>
    \A p \in TimingFields :
      UnparseableTiming(Raw[p]) =>
        /\ Canon.top[p] = SchemaDefault(p)
        /\ ErrorsNaming(p) = 1
        /\ \A q \in TimingFields \ {p} :
             ParseableTiming(Raw[q]) =>
               Canon.top[q] = ExpectedTiming(Raw[q]) /\ ErrorsNaming(q) = 0

C2_Witness ==
  /\ Rendered
  /\ Raw["duration"] = Str(<<"x">>)
  /\ Raw["delay"] = NaN
  /\ Raw["staggerDelayBy"] = Num(0)
  /\ Canon.top["duration"] = Num(350)
  /\ Canon.top["delay"] = Num(0)
  /\ Len(console) = 2

\* C3 as stated: whenever the raw configuration has a disableAnimations field,
\* whatever its value, there is exactly one deprecation warning, the canonical
\* configuration has no disableAnimations field and disableAllAnimations is the
\* legacy value; otherwise no warning and disableAllAnimations is unchanged.
C3_PresentLegacyFieldIsShimmed ==
  Rendered =>
    IF "disableAnimations" \in DOMAIN Raw
    THEN /\ WarningsOf("deprecatedDisableAnimations") = 1
         /\ "disableAnimations" \notin DOMAIN Canon.top
         /\ Canon.top["disableAllAnimations"] = Raw["disableAnimations"]
    ELSE /\ WarningsOf("deprecatedDisableAnimations") = 0
         /\ Canon.top["disableAllAnimations"] = Raw["disableAllAnimations"]

\* C3 amended: the shim acts when disableAnimations has a value other than
\* undefined (false and null included): one deprecation warning, no
\* disableAnimations field at the top level, disableAllAnimations overwritten
\* by the legacy value.  When the field is absent or undefined there is no
\* warning and disableAllAnimations keeps the supplied or default value.
C3_DefinedLegacyFieldIsShimmed ==
  Rendered =>
    /\ "disableAnimations" \notin DOMAIN Canon.top
    /\ IF Get(Raw, "disableAnimations") # Undefined
       THEN /\ WarningsOf("deprecatedDisableAnimations") = 1
            /\ Canon.top["disableAllAnimations"] = Raw["disableAnimations"]
       ELSE /\ WarningsOf("deprecatedDisableAnimations") = 0
            /\ Canon.top["disableAllAnimations"] = Raw["disableAllAnimations"]

C3_Witness ==
  /\ Rendered
  /\ Get(Raw, "disableAnimations") = Bool(FALSE)
  /\ Raw["disableAllAnimations"] = Bool(TRUE)
  /\ Canon.top["disableAllAnimations"] = Bool(FALSE)
  /\ WarningsOf("deprecatedDisableAnimations") = 1

\* C4: in the canonical configuration no key of delegated is also a key of the
\* top level.
C4_TopLevelAndDelegatedDisjoint ==
  Rendered => DOMAIN Canon.top \cap DOMAIN Canon.delegated = {}

\* C5: delegated holds exactly the raw fields whose names are outside the
\* schema, each with its raw value, except that delegated.style is always
\* {position: 'relative'} merged with the caller's style (the caller's keys
\* win); none of the delegated fields is at the top level.
C5_DelegatedIsExactlyUnrecognised ==
  Rendered =>
    /\ DOMAIN Canon.delegated = (DOMAIN Raw \ propTypes) \cup {"style"}
    /\ \A k \in DOMAIN Canon.delegated \ {"style"} : Canon.delegated[k] = Raw[k]
    /\ DOMAIN Canon.style = DOMAIN RawStyle \cup {"position"}
    /\ \A k \in DOMAIN RawStyle : Canon.style[k] = RawStyle[k]
    /\ "position" \notin DOMAIN RawStyle =>
         Canon.style["position"] = Str(<<"relative">>)
    /\ \A k \in DOMAIN Canon.delegated : k \notin DOMAIN Canon.top

\* C6: a timing field whose raw value is text with a leading base-10 integer,
\* or a number, gets that integer (the number itself), negative and zero
\* included, and no error names the field.
C6_ParseableTimingIsKept ==
  Rendered =>
    \A p \in TimingFields :
      ParseableTiming(Raw[p]) =>
        Canon.top[p] = ExpectedTiming(Raw[p]) /\ ErrorsNaming(p) = 0

C6_Witness ==
  /\ Rendered
  /\ Raw["duration"] = Str(<<"-", "7">>)
  /\ Canon.top["duration"] = Num(-7)
  /\ console = <<>>

QuietPass ==
  /\ \A p \in TimingFields : ErrorsNaming(p) = 0
  /\ WarningsOf("deprecatedDisableAnimations") = 0

\* C8 as stated: normalising the non-delegated fields of a canonical
\* configuration again leaves the timing fields, the animation callables, the
\* children sequence and disableAllAnimations unchanged, without a timing or
\* deprecation diagnostic.
C8_SecondPassChangesNothing ==
  Rendered =>
    \A i \in 2..Len(received) :
      /\ \A f \in TimingFields \cup {"enterClassName", "leaveClassName",
                                    "disableAllAnimations", "children"} :
           received[i].top[f] = received[i - 1].top[f]
      /\ QuietPass

\* the child toArray makes of a child it has already keyed
Rekeyed(child) ==
  [child EXCEPT !.key = Str(<<".", "$">> \o escape(child.key.chars))]

\* C8 amended: the second pass leaves the timing fields, the animation
\* callables and disableAllAnimations unchanged and emits no timing or
\* deprecation diagnostic; the children sequence keeps its elements and their
\* order, but each child's key is rewritten to ".$" followed by its previous
\* (escaped) key.
C8_SecondPassRekeysChildrenOnly ==
  Rendered =>
    \A i \in 2..Len(received) :
      LET before == received[i - 1].top
          after == received[i].top
      IN /\ \A f \in TimingFields \cup {"enterClassName", "leaveClassName",
                                       "disableAllAnimations"} :
              after[f] = before[f]
         /\ Len(after["children"].items) = Len(before["children"].items)
         /\ \A n \in 1..Len(before["children"].items) :
              after["children"].items[n] = Rekeyed(before["children"].items[n])
         /\ QuietPass

C8_Witness ==
  /\ Rendered
  /\ Len(received) = 2
  /\ Len(received[2].top["children"].items) = 2
  /\ received[2].top["enterClassName"] = received[1].top["enterClassName"]
  /\ received[2].top["enterClassName"].id = "arrow"

\* the elements the caller supplied, nested arrays included
RECURSIVE SuppliedElements(_)
SuppliedElements(children) ==
  CASE children.t = "element" -> {children}
    [] children.t = "array" ->
         UNION {SuppliedElements(children.items[i]) :
                  i \in 1..Len(children.items)}
    [] OTHER -> {}

\* C9: the capability check warns exactly once when some child is both
\* stateless and keyed and not at all otherwise; a child without a key is
\* accepted however stateless it is.
C9_WarnsOnlyForKeyedStatelessChildren ==
  Rendered =>
    WarningsOf("statelessFunctionalComponentSupplied") =
      (IF \E child \in SuppliedElements(Get(Raw, "children")) :
            isElementAnSFC(child) /\ child.key # Null
       THEN 1 ELSE 0)

\* C10: convertProps never writes to the object it was given, to the caller's
\* style object or to defaultProps; defaultProps never changes at all.
C10_RenderLeavesInputsAlone ==
  [][/\ heap'["defaultProps"] = heap["defaultProps"]
     /\ (pc = "pending" /\ pc' = "rendered") =>
          /\ heap'["props"] = heap["props"]
          /\ "style" \in DOMAIN heap =>
               "style" \in DOMAIN heap' /\ heap'["style"] = heap["style"]]_vars

C10_Witness ==
  /\ Rendered
  /\ "style" \in DOMAIN heap
  /\ Canon.style # heap["style"]
  /\ Raw["duration"] = Str(<<"x">>)
  /\ Canon.top["duration"] = Num(350)
  /\ Canon.top["children"] # Get(Raw, "children")

====
